---- MODULE Spec2Model ----
(***************************************************************************)
(* News Analyzer: the FastAPI handler analyze_company_news (api.py), the   *)
(* utilities it calls (utils.py) and the Streamlit frontend (app.py).      *)
(*                                                                         *)
(* Four specifications share one set of variables and one set of actions:  *)
(*   Spec          the whole program from a click in the frontend;         *)
(*   SpecLoop      the handler from api.py:26 on, for any value returned   *)
(*                 by fetch_news_articles;                                 *)
(*   SpecTail      the handler from api.py:47 on, for any list the loop    *)
(*                 may leave, with the frontend's follow-up;               *)
(*   SpecFunctions the pure functions of utils.py applied to bounded       *)
(*                 inputs.                                                 *)
(* Texts are modelled by where they come from and their length; URLs are   *)
(* sequences of characters so that str.startswith is computed.             *)
(***************************************************************************)
EXTENDS Integers, Sequences, FiniteSets, TLC

\* ------------------------------------------------------------------ bounds
NReq == 2
MaxItems == 3
NNames == 2

\* ------------------------------------------------------- program constants
max_workers == 4
SentimentBudget == 512
MinDescLen == 100
max_topics == 5

Reqs == 1..NReq
Names == 1..NNames
NoPath == 0

Min(a, b) == IF a < b THEN a ELSE b

\* ------------------------------------------------------------ Python values
\* str.startswith(prefix) on sequences of characters
StartsWith(s, p) == Len(s) >= Len(p) /\ SubSeq(s, 1, Len(p)) = p

HttpPrefix == <<"h", "t", "t", "p">>

\* a text is known by its origin and its length; bool(text) is len > 0
Text(kind, n) == [kind |-> kind, len |-> n]
Truthy(t) == t.len > 0
EmptyText == Text("empty", 0)
Placeholder == Text("placeholder", 21)
ErrorText == Text("error", 30)

\* ----------------------------------------------------- utils.py: scraping
\* what a GET of the article's URL gives: ok = FALSE when requests.get or
\* raise_for_status raises; title "None" when the page has no <title>;
\* meta / og: raw and stripped length of the description (raw 0 = absent);
\* body: length of the joined paragraph texts
TitleOf(page) == IF page.title = "None" THEN "No title available" ELSE page.title

DescContent(page) ==
    IF page.meta.raw > 0 THEN Text("meta", page.meta.stripped)
    ELSE IF page.og.raw > 0 THEN Text("og", page.og.stripped)
    ELSE EmptyText

BodyFallback(page, content) ==
    IF ~Truthy(content) \/ content.len < MinDescLen
    THEN Text("body", page.body)
    ELSE content

OrPlaceholder(content) == IF Truthy(content) THEN content ELSE Placeholder

scrape_article_content(page) ==
    IF page.ok
    THEN [title |-> TitleOf(page),
          content |-> OrPlaceholder(BodyFallback(page, DescContent(page)))]
    ELSE [title |-> "Error", content |-> ErrorText]

\* ---------------------------------------------------- utils.py: sentiment
RawLabels == {"LABEL_0", "LABEL_1", "LABEL_2", "LABEL_3", "POSITIVE", ""}
Raises == "raises"
Sentiments == {"Negative", "Neutral", "Positive"}

label_map == [l \in {"LABEL_0", "LABEL_1", "LABEL_2"} |->
                 CASE l = "LABEL_0" -> "Negative"
                   [] l = "LABEL_1" -> "Neutral"
                   [] l = "LABEL_2" -> "Positive"]

\* dict.get(key, default)
DictGet(d, k, default) == IF k \in DOMAIN d THEN d[k] ELSE default

\* the text handed to the classifier: text[:512]
Truncate(text) == Text(text.kind, Min(text.len, SentimentBudget))

\* analyze_sentiment with an except clause that returns a default instead
\* of raising
analyze_sentiment_defaulting(text, outcome) ==
    [raised |-> FALSE,
     value |-> IF outcome = Raises THEN "Neutral" ELSE DictGet(label_map, outcome, "Neutral"),
     input |-> Truncate(text)]

\* outcome: the raw label the classifier returns on the truncated text, or
\* Raises; a failure inside the try is raised again as RuntimeError
analyze_sentiment(text, outcome) ==
    IF outcome = Raises
    THEN [raised |-> TRUE, value |-> "RuntimeError: Sentiment analysis failed",
          input |-> Truncate(text)]
    ELSE [raised |-> FALSE, value |-> DictGet(label_map, outcome, "Neutral"),
          input |-> Truncate(text)]

\* ------------------------------------------------------- utils.py: topics
KeptEntityLabels == {"ORG", "PRODUCT", "GPE", "NORP"}

RECURSIVE SeqToSet(_)
SeqToSet(s) == IF s = <<>> THEN {} ELSE {Head(s)} \cup SeqToSet(Tail(s))

\* entities of the kept labels, as the set the code builds
KeptEntities(ents) ==
    {ents[i].text : i \in {j \in 1..Len(ents) : ents[j].label \in KeptEntityLabels}}

\* list(set(entities))[:max_topics]: the set's iteration order is not fixed,
\* so every ordering of every subset of the right size is a possible result
IsTopicList(ents, topics) ==
    /\ Len(topics) = Min(Cardinality(KeptEntities(ents)), max_topics)
    /\ SeqToSet(topics) \subseteq KeptEntities(ents)
    /\ Cardinality(SeqToSet(topics)) = Len(topics)

\* ------------------------------------------------------------ sample data
Companies == {"Tesla", "Acme"}

HttpUrl == <<"h", "t", "t", "p", ":", "/", "/", "a">>
HttpsUrl == <<"h", "t", "t", "p", "s", ":", "/", "/", "a">>
FtpUrl == <<"f", "t", "p", ":", "/", "/", "a">>
ShortUrl == <<"h", "t", "t">>
\* NewsAPI may send "url": null; Python's None is the one-element sequence
NoneUrl == <<"None">>
IsNone(u) == u = NoneUrl

Desc(raw, stripped) == [raw |-> raw, stripped |-> stripped]
Descs == {Desc(0, 0), Desc(3, 0), Desc(50, 50), Desc(100, 100), Desc(150, 150)}
BodyLens == {0, 40, 400}
Titles == {"None", "", "Headline"}

Page(ok, title, meta, og, body) ==
    [ok |-> ok, title |-> title, meta |-> meta, og |-> og, body |-> body]
PageRaise == Page(FALSE, "None", Desc(0, 0), Desc(0, 0), 0)
PageEmpty == Page(TRUE, "None", Desc(0, 0), Desc(0, 0), 0)
PageMeta == Page(TRUE, "Headline", Desc(150, 150), Desc(0, 0), 40)
PageBody == Page(TRUE, "", Desc(3, 0), Desc(50, 50), 400)
Pages == {PageRaise} \cup
         {Page(TRUE, t, m, o, b) : t \in Titles, m \in Descs, o \in Descs, b \in BodyLens}

Ent(text, label) == [text |-> text, label |-> label]
SampleEnts == <<Ent("Tesla", "ORG"), Ent("Monday", "DATE"), Ent("Berlin", "GPE"),
                Ent("Tesla", "ORG")>>
EntLists == {<<>>, SampleEnts,
             <<Ent("a", "ORG"), Ent("b", "PRODUCT"), Ent("c", "GPE"), Ent("d", "NORP"),
               Ent("e", "ORG"), Ent("f", "ORG"), Ent("g", "PERSON")>>}

\* an article reference with what the outside world answers for it: the page
\* its URL serves, the classifier's outcome and the entities found in its text
Item(url, page, outcome, ents) ==
    [url |-> url, page |-> page, outcome |-> outcome, ents |-> ents]
Items == {Item(FtpUrl, PageMeta, "LABEL_2", SampleEnts),
          Item(NoneUrl, PageMeta, "LABEL_2", SampleEnts),
          Item(ShortUrl, PageMeta, "LABEL_1", <<>>),
          Item(HttpUrl, PageRaise, "LABEL_0", <<>>),
          Item(HttpUrl, PageEmpty, "LABEL_1", <<>>),
          Item(HttpsUrl, PageMeta, "LABEL_2", SampleEnts),
          Item(HttpUrl, PageBody, Raises, SampleEnts)}

RECURSIVE SeqsUpTo(_, _)
SeqsUpTo(S, n) ==
    IF n = 0 THEN {<<>>}
    ELSE LET shorter == SeqsUpTo(S, n - 1)
         IN shorter \cup {Append(s, x) : s \in {t \in shorter : Len(t) = n - 1}, x \in S}

\* a ProcessedArticle as api.py:37-42 builds it
ProcessedArticle(title, summary, sentiment, topics) ==
    [title |-> title, summary |-> summary, sentiment |-> sentiment, topics |-> topics]
SampleArticle == ProcessedArticle("Headline", Text("meta", 150), "Positive", <<"Tesla">>)
\* the lists the loop may leave: none, one or MaxItems processed articles
ProcessedLists == {s \in SeqsUpTo({SampleArticle}, MaxItems) : Len(s) \in {0, 1, MaxItems}}

\* -------------------------------------------------------------------- state
VARIABLES
    pc,                 \* per request: where the handler (or its worker) stands
    fe,                 \* per request: where the frontend that sent it stands
    company,            \* per request: the query parameter
    news_items,         \* per request: what fetch_news_articles returned
    idx,                \* per request: position of the loop's current item
    article,            \* per request: the last scraped article
    processed_articles, \* per request: the list built by the loop
    exc,                \* per request: the exception in flight, "" if none
    tmp,                \* per request: f.name inside generate_hindi_tts
    background_tasks,   \* per request: paths handed to add_task(os.remove, .)
    response,           \* per request: the HTTP response, status 0 before it is built
    files,              \* the temp directory: per name, does it exist, who made it, is it written
    fe_audio,           \* per request: what the frontend hands to st.audio
    logged,             \* per request: positions of the items whose processing was logged as failed
    scrape_calls,       \* per request: positions of the items scrape_article_content was called on
    analysis_calls,     \* per request: positions of the items analyze_sentiment was called on
    tts_calls,          \* per request: number of generate_hindi_tts submissions
    created,            \* per request: names of the files its narrator created
    removed,            \* per request: makers of the files its os.remove task deleted
    bg_done,            \* per request: number of its background tasks that have run
    call                \* the pure function under test with its argument and result

vars == <<pc, fe, company, news_items, idx, article, processed_articles, exc, tmp,
          background_tasks, response, files, fe_audio, logged, scrape_calls,
          analysis_calls, tts_calls, created, removed, bg_done, call>>

handlerVars == <<company, news_items, idx, article, processed_articles, exc, tmp,
                 background_tasks, response>>
historyVars == <<logged, scrape_calls, analysis_calls, tts_calls, created, removed, bg_done>>

NoArticle == [title |-> "", content |-> EmptyText, none |-> TRUE]
NoResponse == [status |-> 0, json |-> [detail |-> ""]]
NoFile == [exists |-> FALSE, owner |-> 0, audio |-> FALSE]
NoCall == [fn |-> "", arg |-> 0, result |-> 0, done |-> TRUE]

\* everything but pc, fe, company, news_items, processed_articles and call
InitRest ==
    /\ idx = [r \in Reqs |-> 0]
    /\ article = [r \in Reqs |-> NoArticle]
    /\ exc = [r \in Reqs |-> ""]
    /\ tmp = [r \in Reqs |-> NoPath]
    /\ background_tasks = [r \in Reqs |-> <<>>]
    /\ response = [r \in Reqs |-> NoResponse]
    /\ files = [n \in Names |-> NoFile]
    /\ fe_audio = [r \in Reqs |-> ""]
    /\ logged = [r \in Reqs |-> {}]
    /\ scrape_calls = [r \in Reqs |-> <<>>]
    /\ analysis_calls = [r \in Reqs |-> <<>>]
    /\ tts_calls = [r \in Reqs |-> 0]
    /\ created = [r \in Reqs |-> {}]
    /\ removed = [r \in Reqs |-> {}]
    /\ bg_done = [r \in Reqs |-> 0]

Idle ==
    /\ pc = [r \in Reqs |-> "idle"]
    /\ fe = [r \in Reqs |-> "idle"]
    /\ company = [r \in Reqs |-> ""]
    /\ news_items = [r \in Reqs |-> <<>>]
    /\ processed_articles = [r \in Reqs |-> <<>>]

\* the program after start-up: no request yet
Init ==
    /\ Idle
    /\ call = NoCall
    /\ InitRest

\* ------------------------------------------------------ app.py: the click
\* app.py:18-24: the user enters a company and presses Analyze; the GET
\* reaches the handler
Click(r) ==
    /\ fe[r] = "idle"
    /\ \E c \in Companies : company' = [company EXCEPT ![r] = c]
    /\ fe' = [fe EXCEPT ![r] = "get_analyze"]
    /\ pc' = [pc EXCEPT ![r] = "fetch"]
    /\ UNCHANGED <<news_items, idx, article, processed_articles, exc, tmp,
                   background_tasks, response, files, fe_audio, call>>
    /\ UNCHANGED historyVars

\* ------------------------------------------------------- api.py: the fetch
\* positional arguments of the call at api.py:25, parameters without a
\* default of the def at utils.py:29
FetchCallArgs == <<"company">>
FetchRequiredParams == <<"company", "api_key">>
BindsArguments(args, required) == Len(args) >= Len(required)

\* api.py:25: a call that does not bind every required parameter raises
\* TypeError before the body runs; otherwise the body returns the articles
FetchCall(r) ==
    /\ pc[r] = "fetch"
    /\ IF BindsArguments(FetchCallArgs, FetchRequiredParams)
       THEN /\ \E items \in SeqsUpTo(Items, MaxItems) :
                  news_items' = [news_items EXCEPT ![r] = items]
            /\ pc' = [pc EXCEPT ![r] = "for"]
            /\ exc' = exc
       ELSE /\ exc' = [exc EXCEPT ![r] = "TypeError"]
            /\ pc' = [pc EXCEPT ![r] = "outer_except"]
            /\ news_items' = news_items
    /\ UNCHANGED <<fe, company, idx, article, processed_articles, tmp,
                   background_tasks, response, files, fe_audio, call>>
    /\ UNCHANGED historyVars

\* ------------------------------------------- api.py: the per-article loop
CurrentItem(r) == news_items[r][idx[r]]

\* api.py:28: the for statement takes the next item or leaves the loop
ForNext(r) ==
    /\ pc[r] = "for"
    /\ IF idx[r] < Len(news_items[r])
       THEN /\ idx' = [idx EXCEPT ![r] = idx[r] + 1]
            /\ pc' = [pc EXCEPT ![r] = "check_url"]
       ELSE /\ idx' = idx
            /\ pc' = [pc EXCEPT ![r] = "check_empty"]
    /\ UNCHANGED <<fe, company, news_items, article, processed_articles, exc, tmp,
                   background_tasks, response, files, fe_audio, call>>
    /\ UNCHANGED historyVars

\* the loop without the scheme check
SkipsUrlNever(url) == FALSE

\* api.py:30: not item['url'].startswith('http')
SkipsUrl(url) == ~StartsWith(url, HttpPrefix)

\* api.py:30-31: None has no startswith (AttributeError, caught at line 43);
\* a URL without the prefix is skipped by continue
CheckUrl(r) ==
    /\ pc[r] = "check_url"
    /\ IF IsNone(CurrentItem(r).url)
       THEN /\ exc' = [exc EXCEPT ![r] = "AttributeError"]
            /\ pc' = [pc EXCEPT ![r] = "item_except"]
       ELSE /\ exc' = exc
            /\ pc' = [pc EXCEPT ![r] = IF SkipsUrl(CurrentItem(r).url)
                                       THEN "for" ELSE "scrape"]
    /\ UNCHANGED <<fe, company, news_items, idx, article, processed_articles, tmp,
                   background_tasks, response, files, fe_audio, call>>
    /\ UNCHANGED historyVars

\* api.py:33: article = scrape_article_content(item['url'])
Scrape(r) ==
    /\ pc[r] = "scrape"
    /\ article' = [article EXCEPT ![r] = scrape_article_content(CurrentItem(r).page)]
    /\ scrape_calls' = [scrape_calls EXCEPT ![r] = Append(@, idx[r])]
    /\ pc' = [pc EXCEPT ![r] = "check_content"]
    /\ UNCHANGED <<fe, company, news_items, idx, processed_articles, exc, tmp,
                   background_tasks, response, files, fe_audio, call>>
    /\ UNCHANGED <<logged, analysis_calls, tts_calls, created, removed, bg_done>>

\* api.py:34: not article['content']
SkipsContent(a) == ~Truthy(a.content)

\* api.py:34-35
CheckContent(r) ==
    /\ pc[r] = "check_content"
    /\ pc' = [pc EXCEPT ![r] = IF SkipsContent(article[r]) THEN "for" ELSE "build"]
    /\ UNCHANGED <<fe, company, news_items, idx, article, processed_articles, exc, tmp,
                   background_tasks, response, files, fe_audio, call>>
    /\ UNCHANGED historyVars

\* the subscripts of api.py:38-39, evaluated before the calls of lines 40-41
SubscriptedKeys == {"title", "summary"}
HasKeys(a) == SubscriptedKeys \subseteq DOMAIN a

\* api.py:37-42: the dict display is evaluated left to right: a missing key
\* raises KeyError before analyze_sentiment is called; a classifier failure
\* raises RuntimeError; only then is the article appended
BuildArticle(r) ==
    /\ pc[r] = "build"
    /\ IF ~HasKeys(article[r])
       THEN /\ exc' = [exc EXCEPT ![r] = "KeyError"]
            /\ pc' = [pc EXCEPT ![r] = "item_except"]
            /\ UNCHANGED <<processed_articles, analysis_calls>>
       ELSE /\ analysis_calls' = [analysis_calls EXCEPT ![r] = Append(@, idx[r])]
            /\ IF analyze_sentiment(article[r].content, CurrentItem(r).outcome).raised
               THEN /\ exc' = [exc EXCEPT ![r] = "RuntimeError"]
                    /\ pc' = [pc EXCEPT ![r] = "item_except"]
                    /\ UNCHANGED processed_articles
               ELSE /\ \E topics \in SeqsUpTo(KeptEntities(CurrentItem(r).ents), max_topics) :
                         /\ IsTopicList(CurrentItem(r).ents, topics)
                         /\ processed_articles' =
                              [processed_articles EXCEPT ![r] =
                                 Append(@, ProcessedArticle(
                                    article[r].title, article[r].summary,
                                    analyze_sentiment(article[r].content, CurrentItem(r).outcome).value,
                                    topics))]
                    /\ pc' = [pc EXCEPT ![r] = "for"]
                    /\ exc' = exc
    /\ UNCHANGED <<fe, company, news_items, idx, article, tmp,
                   background_tasks, response, files, fe_audio, call>>
    /\ UNCHANGED <<logged, scrape_calls, tts_calls, created, removed, bg_done>>

\* the loop without its try: the exception leaves the loop and reaches the
\* outer except clause
ItemExceptPropagates(r) ==
    /\ pc[r] = "item_except"
    /\ logged' = [logged EXCEPT ![r] = @ \cup {idx[r]}]
    /\ exc' = [exc EXCEPT ![r] = "RuntimeError"]
    /\ pc' = [pc EXCEPT ![r] = "outer_except"]
    /\ UNCHANGED <<fe, company, news_items, idx, article, processed_articles, tmp,
                   background_tasks, response, files, fe_audio, call>>
    /\ UNCHANGED <<scrape_calls, analysis_calls, tts_calls, created, removed, bg_done>>

\* api.py:43-45: log, drop the exception, continue with the next item
ItemExcept(r) ==
    /\ pc[r] = "item_except"
    /\ logged' = [logged EXCEPT ![r] = @ \cup {idx[r]}]
    /\ exc' = [exc EXCEPT ![r] = ""]
    /\ pc' = [pc EXCEPT ![r] = "for"]
    /\ UNCHANGED <<fe, company, news_items, idx, article, processed_articles, tmp,
                   background_tasks, response, files, fe_audio, call>>
    /\ UNCHANGED <<scrape_calls, analysis_calls, tts_calls, created, removed, bg_done>>

\* the handler without the check for an empty list
NoArticlesNever(p) == FALSE

\* api.py:47: not processed_articles
NoArticles(p) == p = <<>>

\* api.py:47-51: raise HTTPException(404) inside the outer try
CheckEmpty(r) ==
    /\ pc[r] = "check_empty"
    /\ IF NoArticles(processed_articles[r])
       THEN /\ exc' = [exc EXCEPT ![r] = "HTTPException404"]
            /\ pc' = [pc EXCEPT ![r] = "outer_except"]
       ELSE /\ exc' = exc
            /\ pc' = [pc EXCEPT ![r] = "summary"]
    /\ UNCHANGED <<fe, company, news_items, idx, article, processed_articles, tmp,
                   background_tasks, response, files, fe_audio, call>>
    /\ UNCHANGED historyVars

\* api.py:67: the exceptions the clause "except Exception" catches; every one
\* the handler can raise derives from Exception, HTTPException included
CaughtByOuter(e) == e \in {"TypeError", "HTTPException404", "RuntimeError"}

\* the response FastAPI builds from a raised HTTPException
ErrorResponse(status, detail) == [status |-> status, json |-> [detail |-> detail]]

\* api.py:62-66: the dict the handler returns
SuccessJson(c, articles, path) ==
    [company |-> c, articles |-> articles, tts_path |-> path]

\* an except clause that answers with what was processed so far
OuterExceptPartial(r) ==
    /\ pc[r] = "outer_except"
    /\ response' = [response EXCEPT ![r] =
          [status |-> 200,
           json |-> SuccessJson(company[r], processed_articles[r], NoPath)]]
    /\ exc' = [exc EXCEPT ![r] = ""]
    /\ pc' = [pc EXCEPT ![r] = "respond"]
    /\ UNCHANGED <<fe, company, news_items, idx, article, processed_articles, tmp,
                   background_tasks, files, fe_audio, call>>
    /\ UNCHANGED historyVars

\* api.py:67-69: log, then raise HTTPException(500); an exception the clause
\* does not catch would reach FastAPI as it is
OuterExcept(r) ==
    /\ pc[r] = "outer_except"
    /\ response' = [response EXCEPT ![r] =
          IF CaughtByOuter(exc[r])
          THEN ErrorResponse(500, "Internal server error")
          ELSE IF exc[r] = "HTTPException404"
          THEN ErrorResponse(404, "No articles could be processed")
          ELSE ErrorResponse(500, "Internal Server Error")]
    /\ exc' = [exc EXCEPT ![r] = ""]
    /\ pc' = [pc EXCEPT ![r] = "respond"]
    /\ UNCHANGED <<fe, company, news_items, idx, article, processed_articles, tmp,
                   background_tasks, files, fe_audio, call>>
    /\ UNCHANGED historyVars

\* ------------------------------------------------ api.py: the narrator
WorkerPcs == {"tts_translate", "tts_tempfile", "tts_write"}
BusyWorkers == Cardinality({r \in Reqs : pc[r] \in WorkerPcs})

\* api.py:53-58: build the summary line, submit generate_hindi_tts to the
\* executor and await it
SubmitTTS(r) ==
    /\ pc[r] = "summary"
    /\ tts_calls' = [tts_calls EXCEPT ![r] = @ + 1]
    /\ pc' = [pc EXCEPT ![r] = "tts_queued"]
    /\ UNCHANGED <<fe, company, news_items, idx, article, processed_articles, exc, tmp,
                   background_tasks, response, files, fe_audio, call>>
    /\ UNCHANGED <<logged, scrape_calls, analysis_calls, created, removed, bg_done>>

\* api.py:16: the pool runs at most max_workers calls at a time
WorkerStart(r) ==
    /\ pc[r] = "tts_queued"
    /\ BusyWorkers < max_workers
    /\ pc' = [pc EXCEPT ![r] = "tts_translate"]
    /\ UNCHANGED <<fe, call, files, fe_audio>>
    /\ UNCHANGED handlerVars
    /\ UNCHANGED historyVars

\* utils.py:97-101: translate, tokenize and run the speech model; the
\* translation service or the model may fail
Synthesize(r) ==
    /\ pc[r] = "tts_translate"
    /\ \E ok \in BOOLEAN :
          pc' = [pc EXCEPT ![r] = IF ok THEN "tts_tempfile" ELSE "tts_raise"]
    /\ UNCHANGED <<fe, call, files, fe_audio>>
    /\ UNCHANGED handlerVars
    /\ UNCHANGED historyVars

\* the names NamedTemporaryFile may take: those of no existing file
FreeNames(fs) == {n \in Names : ~fs[n].exists}

\* utils.py:102: NamedTemporaryFile(suffix=".wav", delete=False) creates an
\* empty file under a name not in use, or raises when it finds none
CreateTemp(r) ==
    /\ pc[r] = "tts_tempfile"
    /\ IF FreeNames(files) = {}
       THEN /\ pc' = [pc EXCEPT ![r] = "tts_raise"]
            /\ UNCHANGED <<files, tmp, created>>
       ELSE \E n \in FreeNames(files) :
            /\ files' = [files EXCEPT ![n] = [exists |-> TRUE, owner |-> r, audio |-> FALSE]]
            /\ tmp' = [tmp EXCEPT ![r] = n]
            /\ created' = [created EXCEPT ![r] = @ \cup {n}]
            /\ pc' = [pc EXCEPT ![r] = "tts_write"]
    /\ UNCHANGED <<fe, company, news_items, idx, article, processed_articles, exc,
                   background_tasks, response, fe_audio, call>>
    /\ UNCHANGED <<logged, scrape_calls, analysis_calls, tts_calls, removed, bg_done>>

\* utils.py:103-104: sf.write fills the file and the name is returned, or
\* sf.write raises and the file stays as it is (delete=False)
WriteAudio(r) ==
    /\ pc[r] = "tts_write"
    /\ \E ok \in BOOLEAN :
          IF ok
          THEN /\ files' = [files EXCEPT ![tmp[r]].audio = TRUE]
               /\ pc' = [pc EXCEPT ![r] = "tts_return"]
          ELSE /\ files' = files
               /\ pc' = [pc EXCEPT ![r] = "tts_raise"]
    /\ UNCHANGED <<fe, call, fe_audio>>
    /\ UNCHANGED handlerVars
    /\ UNCHANGED historyVars

\* utils.py:105-106 and api.py:54: the RuntimeError comes out of the await
\* inside the outer try
TTSRaised(r) ==
    /\ pc[r] = "tts_raise"
    /\ exc' = [exc EXCEPT ![r] = "RuntimeError"]
    /\ pc' = [pc EXCEPT ![r] = "outer_except"]
    /\ UNCHANGED <<fe, company, news_items, idx, article, processed_articles, tmp,
                   background_tasks, response, files, fe_audio, call>>
    /\ UNCHANGED historyVars

\* api.py:54-66: the await yields the path; schedule os.remove on it and
\* return the result
ReturnResult(r) ==
    /\ pc[r] = "tts_return"
    /\ background_tasks' = [background_tasks EXCEPT ![r] = Append(@, tmp[r])]
    /\ response' = [response EXCEPT ![r] =
          [status |-> 200,
           json |-> SuccessJson(company[r], processed_articles[r], tmp[r])]]
    /\ pc' = [pc EXCEPT ![r] = "respond"]
    /\ UNCHANGED <<fe, company, news_items, idx, article, processed_articles, exc, tmp,
                   files, fe_audio, call>>
    /\ UNCHANGED historyVars

\* FastAPI sends the response; the background tasks run only after a
\* response that carries them, an HTTPException carries none
SendResponse(r) ==
    /\ pc[r] = "respond"
    /\ pc' = [pc EXCEPT ![r] = IF background_tasks[r] = <<>> THEN "done" ELSE "background"]
    /\ UNCHANGED <<fe, call, files, fe_audio>>
    /\ UNCHANGED handlerVars
    /\ UNCHANGED historyVars

Sent(r) == pc[r] \in {"background", "done"}

\* api.py:60: os.remove(tts_path), run after the response was sent
RunBackground(r) ==
    /\ pc[r] = "background"
    /\ LET path == background_tasks[r][bg_done[r] + 1]
       IN /\ files' = [files EXCEPT ![path] = NoFile]
          /\ removed' = [removed EXCEPT ![r] =
                IF files[path].exists THEN @ \cup {files[path].owner} ELSE @]
    /\ bg_done' = [bg_done EXCEPT ![r] = @ + 1]
    /\ pc' = [pc EXCEPT ![r] = IF bg_done[r] + 1 = Len(background_tasks[r])
                               THEN "done" ELSE "background"]
    /\ UNCHANGED <<fe, call, fe_audio>>
    /\ UNCHANGED handlerVars
    /\ UNCHANGED <<logged, scrape_calls, analysis_calls, tts_calls, created>>

\* ------------------------------------------------- app.py: the frontend
\* app.py:24-26: raise_for_status raises HTTPError (a RequestException, shown
\* by st.error at line 47) on a 4xx or 5xx answer; otherwise the JSON is read
FeReceive(r) ==
    /\ fe[r] = "get_analyze"
    /\ Sent(r)
    /\ fe' = [fe EXCEPT ![r] = IF response[r].status >= 400 THEN "st_error" ELSE "render"]
    /\ UNCHANGED <<pc, call, files, fe_audio>>
    /\ UNCHANGED handlerVars
    /\ UNCHANGED historyVars

\* the keys app.py:29-38 subscript in the result and in each article
RenderKeys == {"company", "articles"}
RenderArticleKeys == {"title", "summary", "sentiment", "topics"}
Renders(data) ==
    /\ RenderKeys \subseteq DOMAIN data
    /\ \A i \in 1..Len(data.articles) : RenderArticleKeys \subseteq DOMAIN data.articles[i]

\* app.py:29-39: a missing key raises KeyError, which the except clause of
\* line 46 (RequestException only) does not catch
FeRender(r) ==
    /\ fe[r] = "render"
    /\ fe' = [fe EXCEPT ![r] = IF Renders(response[r].json) THEN "tts_get" ELSE "crashed"]
    /\ UNCHANGED <<pc, call, files, fe_audio>>
    /\ UNCHANGED handlerVars
    /\ UNCHANGED historyVars

\* app.py:43: the key of the result the frontend takes the audio URL from
AudioKey == "tts_url"

\* api.py:18: the only route of the application
Routes == {"/analyze"}

\* what a GET of API_BASE + path gives: a path outside the routes is
\* answered 404 with a JSON body, never with the bytes of a file
ServeGet(path) == IF path \in Routes THEN "analyze response" ELSE "404 body"

\* app.py:43-44: data['tts_url'] raises KeyError when the key is missing;
\* otherwise the second GET is made and its body is handed to st.audio
\* without a status check
FeTtsGet(r) ==
    /\ fe[r] = "tts_get"
    /\ IF AudioKey \in DOMAIN response[r].json
       THEN /\ fe_audio' = [fe_audio EXCEPT ![r] = ServeGet(response[r].json[AudioKey])]
            /\ fe' = [fe EXCEPT ![r] = "audio_shown"]
       ELSE /\ fe_audio' = fe_audio
            /\ fe' = [fe EXCEPT ![r] = "crashed"]
    /\ UNCHANGED <<pc, call, files>>
    /\ UNCHANGED handlerVars
    /\ UNCHANGED historyVars

\* ------------------------------------------- the functions of utils.py
Call(fn, arg) == [fn |-> fn, arg |-> arg, result |-> 0, done |-> FALSE]
TextLens == {0, 100, 511, 512, 513, 2000}
SentimentArgs == {[text |-> Text("body", n), outcome |-> o] :
                     n \in TextLens, o \in RawLabels \cup {Raises}}

\* utils.py:44-73
ApplyScrape ==
    /\ call.fn = "scrape_article_content" /\ ~call.done
    /\ call' = [call EXCEPT !.result = scrape_article_content(call.arg), !.done = TRUE]
    /\ UNCHANGED <<pc, fe, files, fe_audio>>
    /\ UNCHANGED handlerVars
    /\ UNCHANGED historyVars

\* utils.py:75-86
ApplySentiment ==
    /\ call.fn = "analyze_sentiment" /\ ~call.done
    /\ call' = [call EXCEPT !.result = analyze_sentiment(call.arg.text, call.arg.outcome),
                            !.done = TRUE]
    /\ UNCHANGED <<pc, fe, files, fe_audio>>
    /\ UNCHANGED handlerVars
    /\ UNCHANGED historyVars

\* utils.py:88-92
ApplyTopics ==
    /\ call.fn = "extract_key_topics" /\ ~call.done
    /\ \E topics \in SeqsUpTo(KeptEntities(call.arg), max_topics) :
          /\ IsTopicList(call.arg, topics)
          /\ call' = [call EXCEPT !.result = topics, !.done = TRUE]
    /\ UNCHANGED <<pc, fe, files, fe_audio>>
    /\ UNCHANGED handlerVars
    /\ UNCHANGED historyVars

\* ------------------------------------------------------- specifications
\* the whole program: the call of api.py:25 never binds api_key, so the
\* handler goes from the fetch to the outer except clause in every request
Next ==
    \E r \in Reqs :
        \/ Click(r)
        \/ FetchCall(r)
        \/ OuterExcept(r)
        \/ SendResponse(r)
        \/ FeReceive(r)

Spec == Init /\ [][Next]_vars

\* the handler from api.py:26 on: one request, for which the fetch has
\* returned any list of at most MaxItems references
InitLoop ==
    /\ \E a \in Reqs, c \in Companies, items \in SeqsUpTo(Items, MaxItems) :
          /\ pc = [r \in Reqs |-> IF r = a THEN "for" ELSE "idle"]
          /\ fe = [r \in Reqs |-> IF r = a THEN "get_analyze" ELSE "idle"]
          /\ company = [r \in Reqs |-> IF r = a THEN c ELSE ""]
          /\ news_items = [r \in Reqs |-> IF r = a THEN items ELSE <<>>]
    /\ processed_articles = [r \in Reqs |-> <<>>]
    /\ call = NoCall
    /\ InitRest

NextLoop ==
    \E r \in Reqs :
        \/ ForNext(r)
        \/ CheckUrl(r)
        \/ Scrape(r)
        \/ CheckContent(r)
        \/ BuildArticle(r)
        \/ ItemExcept(r)
        \/ CheckEmpty(r)
        \/ OuterExcept(r)
        \/ SendResponse(r)
        \/ FeReceive(r)

SpecLoop == InitLoop /\ [][NextLoop]_vars

\* the handler from api.py:47 on: every request has left the loop with any
\* list of at most MaxItems processed articles
InitTail ==
    /\ pc = [r \in Reqs |-> "check_empty"]
    /\ fe = [r \in Reqs |-> "get_analyze"]
    /\ \E c \in Companies : company = [r \in Reqs |-> c]
    /\ processed_articles \in [Reqs -> ProcessedLists]
    /\ news_items = [r \in Reqs |->
          [i \in 1..Len(processed_articles[r]) |->
              Item(HttpsUrl, PageMeta, "LABEL_2", SampleEnts)]]
    /\ call = NoCall
    /\ InitRest

NextTail ==
    \E r \in Reqs :
        \/ CheckEmpty(r)
        \/ SubmitTTS(r)
        \/ WorkerStart(r)
        \/ Synthesize(r)
        \/ CreateTemp(r)
        \/ WriteAudio(r)
        \/ TTSRaised(r)
        \/ ReturnResult(r)
        \/ OuterExcept(r)
        \/ SendResponse(r)
        \/ RunBackground(r)
        \/ FeReceive(r)
        \/ FeRender(r)
        \/ FeTtsGet(r)

SpecTail == InitTail /\ [][NextTail]_vars

\* the functions of utils.py, each applied once to an argument of its domain
InitFunctions ==
    /\ Idle
    /\ InitRest
    /\ call \in {Call("scrape_article_content", p) : p \in Pages}
             \cup {Call("analyze_sentiment", a) : a \in SentimentArgs}
             \cup {Call("extract_key_topics", e) : e \in EntLists}

NextFunctions == ApplyScrape \/ ApplySentiment \/ ApplyTopics

SpecFunctions == InitFunctions /\ [][NextFunctions]_vars

\* ------------------------------------------------------------- properties
Built(r) == response[r].status # 0
LoopDone(r) == pc[r] \notin {"idle", "fetch", "for", "check_url", "scrape",
                             "check_content", "build", "item_except"}
HttpsPrefix == <<"h", "t", "t", "p", "s">>
HasHttpScheme(url) == StartsWith(url, HttpPrefix) \/ StartsWith(url, HttpsPrefix)

\* C1: a request in which no article survives the per-article step is
\* answered with status 404.
C1_NotFoundWhenNothingSurvives ==
    \A r \in Reqs :
        (Built(r) /\ LoopDone(r) /\ processed_articles[r] = <<>>)
            => response[r].status = 404

\* the references the claim C2 says end up in the result
SurvivesPerClaim(item) ==
    /\ HasHttpScheme(item.url)
    /\ Truthy(scrape_article_content(item.page).content)
    /\ item.outcome # Raises

RECURSIVE SurvivorTitles(_)
SurvivorTitles(items) ==
    IF items = <<>> THEN <<>>
    ELSE IF SurvivesPerClaim(Head(items))
         THEN <<scrape_article_content(Head(items).page).title>> \o SurvivorTitles(Tail(items))
         ELSE SurvivorTitles(Tail(items))

TitlesOf(articles) == [i \in 1..Len(articles) |-> articles[i].title]

\* one reference without http scheme, one whose page has no content at all,
\* one whose page and analysis succeed
IsThreeReferenceScenario(items) ==
    /\ Len(items) = 3
    /\ \E i, j, k \in 1..3 :
          /\ {i, j, k} = 1..3
          /\ ~HasHttpScheme(items[i].url)
          /\ HasHttpScheme(items[j].url) /\ items[j].page = PageEmpty
          /\ HasHttpScheme(items[k].url) /\ items[k].page = PageMeta
          /\ items[k].outcome # Raises

\* C2: the articles of a successful result are the surviving references in
\* fetch order, and the three-reference scenario is answered with a
\* successful result of exactly one article.
C2_ResultIsSurvivingSubsequence ==
    \A r \in Reqs :
        Sent(r) =>
            /\ response[r].status = 200 =>
                  TitlesOf(response[r].json.articles) = SurvivorTitles(news_items[r])
            /\ IsThreeReferenceScenario(news_items[r]) =>
                  /\ response[r].status = 200
                  /\ Len(response[r].json.articles) = 1

\* C3: scrape_article_content is only ever called on references whose URL
\* starts with http, and a reference that fails the check gets no scrape
\* and no analysis call.
C3_SchemeCheckPrecedesScrape ==
    \A r \in Reqs :
        /\ \A k \in 1..Len(scrape_calls[r]) :
              HasHttpScheme(news_items[r][scrape_calls[r][k]].url)
        /\ \A i \in 1..Len(news_items[r]) :
              ~HasHttpScheme(news_items[r][i].url) =>
                  /\ \A k \in 1..Len(scrape_calls[r]) : scrape_calls[r][k] # i
                  /\ \A k \in 1..Len(analysis_calls[r]) : analysis_calls[r][k] # i
        /\ pc[r] \in {"scrape", "check_content", "build"} =>
              HasHttpScheme(CurrentItem(r).url)

\* a reference without http scheme was passed over and a later one scraped
C3_Witness ==
    \E r \in Reqs :
        /\ Len(news_items[r]) >= 2
        /\ ~HasHttpScheme(news_items[r][1].url)
        /\ scrape_calls[r] = <<2>>

C5_NarratorOnceAndOnlyWithArticles ==
    \A r \in Reqs :
        /\ tts_calls[r] <= 1
        /\ tts_calls[r] >= 1 => (LoopDone(r) /\ processed_articles[r] # <<>>)
        /\ processed_articles[r] = <<>> => (tts_calls[r] = 0 /\ created[r] = {})

\* one request ended without articles and without a narrator call while
\* another one called the narrator
C5_Witness ==
    \E r, q \in Reqs :
        /\ pc[r] = "done" /\ processed_articles[r] = <<>> /\ tts_calls[r] = 0
        /\ response[r].status >= 400
        /\ pc[q] = "done" /\ tts_calls[q] = 1

\* the narrator was called and raised
NarratorFailed(r) ==
    /\ tts_calls[r] = 1
    /\ pc[r] \in {"outer_except", "respond", "done"}
    /\ background_tasks[r] = <<>>

\* C6: a response is either a success with at least one article and the path
\* of a written audio file, or an error without articles; a narrator failure
\* after articles were processed gives status 500 and no article list.
C6_NoPartialSuccess ==
    \A r \in Reqs :
        /\ Built(r) =>
              \/ /\ response[r].status = 200
                 /\ Len(response[r].json.articles) >= 1
                 /\ response[r].json.tts_path \in Names
                 /\ pc[r] = "respond" =>
                       /\ files[response[r].json.tts_path].exists
                       /\ files[response[r].json.tts_path].audio
                       /\ files[response[r].json.tts_path].owner = r
              \/ /\ response[r].status >= 400
                 /\ "articles" \notin DOMAIN response[r].json
        /\ (Built(r) /\ NarratorFailed(r)) =>
              /\ response[r].status = 500
              /\ "articles" \notin DOMAIN response[r].json

\* a request with processed articles was answered 500 after its narrator raised
C6_Witness ==
    \E r \in Reqs :
        /\ Sent(r) /\ NarratorFailed(r)
        /\ processed_articles[r] # <<>>
        /\ response[r].status = 500

\* a reference with http scheme whose page cannot be fetched and whose
\* error text the classifier labels
IsErrorReference(item) ==
    HasHttpScheme(item.url) /\ ~item.page.ok /\ item.outcome # Raises

\* C7: a failed scrape gives a record titled "Error" with non-empty error
\* text, the empty-content check lets it pass, and it is in the result as a
\* processed article.
C7_ScrapeErrorBecomesArticle ==
    \A r \in Reqs :
        /\ (pc[r] = "check_content" /\ ~CurrentItem(r).page.ok) =>
              /\ article[r].title = "Error"
              /\ article[r].content.kind = "error"
              /\ Truthy(article[r].content)
              /\ ~SkipsContent(article[r])
        /\ (Sent(r) /\ \E i \in 1..Len(news_items[r]) : IsErrorReference(news_items[r][i])) =>
              /\ response[r].status = 200
              /\ \E k \in 1..Len(response[r].json.articles) :
                    response[r].json.articles[k].title = "Error"

\* C8: the key the frontend reads the audio location from is a key of the
\* successful result, and a frontend that got a successful result ends with
\* the audio in its player.
C8_FrontendObtainsAudio ==
    \A r \in Reqs :
        response[r].status = 200 =>
            /\ AudioKey \in DOMAIN response[r].json
            /\ fe[r] \in {"crashed", "audio_shown"} =>
                  (fe[r] = "audio_shown" /\ fe_audio[r] = "audio")

\* C9: every file a request's narrator creates has its deletion scheduled
\* exactly once by the time the response is sent, exists when the response
\* is sent, is deleted only after that and only by its own request, and is
\* gone when the request's work is over.
C9_FileDeletedOnceAfterResponse ==
    \A r \in Reqs :
        /\ Sent(r) =>
              \A n \in created[r] :
                  Cardinality({k \in 1..Len(background_tasks[r]) :
                                   background_tasks[r][k] = n}) = 1
        /\ (pc[r] = "respond" /\ response[r].status = 200) =>
              files[response[r].json.tts_path].exists
        /\ bg_done[r] > 0 => Sent(r)
        /\ removed[r] \subseteq {r}
        /\ pc[r] = "done" =>
              \A n \in created[r] : ~(files[n].exists /\ files[n].owner = r)

\* What holds of the files whose path generate_hindi_tts returned: the
\* deletion is scheduled exactly once, the file is there when the response
\* goes out, is removed only after that and only by its own request, and is
\* gone when the request's work is over.
ReturnedPathDeletedOnceAfterResponse ==
    \A r \in Reqs :
        /\ Len(background_tasks[r]) <= 1
        /\ response[r].status = 200 =>
              /\ background_tasks[r] = <<response[r].json.tts_path>>
              /\ response[r].json.tts_path \in created[r]
              /\ pc[r] = "respond" => files[response[r].json.tts_path].exists
              /\ pc[r] = "done" =>
                    ~(files[response[r].json.tts_path].exists
                      /\ files[response[r].json.tts_path].owner = r)
        /\ bg_done[r] > 0 => Sent(r)
        /\ removed[r] \subseteq {r}

\* C10: analyze_sentiment maps LABEL_0, LABEL_1 and LABEL_2 to Negative,
\* Neutral and Positive, every other label to Neutral, and raises when the
\* classifier raises.
C10_SentimentMapping ==
    (call.fn = "analyze_sentiment" /\ call.done) =>
        IF call.arg.outcome = Raises
        THEN /\ call.result.raised
             /\ call.result.value \notin Sentiments
        ELSE /\ ~call.result.raised
             /\ call.result.value \in Sentiments
             /\ call.arg.outcome = "LABEL_0" => call.result.value = "Negative"
             /\ call.arg.outcome = "LABEL_1" => call.result.value = "Neutral"
             /\ call.arg.outcome = "LABEL_2" => call.result.value = "Positive"
             /\ call.arg.outcome \notin {"LABEL_0", "LABEL_1", "LABEL_2"} =>
                   call.result.value = "Neutral"

\* an unknown label was mapped to Neutral
C10_Witness ==
    /\ call.fn = "analyze_sentiment" /\ call.done
    /\ call.arg.outcome = "LABEL_3"
    /\ call.result.value = "Neutral"

====
